---- MODULE Spec2Model ----
(***************************************************************************)
(* Infant-Stack: the device ingestion gateway (MQTT -> PostgreSQL), the    *)
(* gate state machine it drives, the administrative gate update, the alert *)
(* acknowledgment endpoint and the alert escalation sweep.                 *)
(*                                                                         *)
(* Conventions.  A JSON payload is a function from keys to strings         *)
(* (a Python dict); a topic is the sequence of its path segments, so      *)
(* that topic.split("/") is the topic itself and `"word" in topic` is      *)
(* "some segment holds the word".  SQL NULL / Python None is NULL.         *)
(* A persistence call may raise: every handler takes the place where it    *)
(* does from FailPoints, chosen by the environment.                        *)
(***************************************************************************)
EXTENDS Integers, Sequences, FiniteSets, TLC

VARIABLES
    inbox,          \* messages received from the broker, not yet handed to _on_message
    nextSeq,        \* arrival number of the next message
    now,            \* datetime.utcnow(), a logical clock
    gates,          \* table gates: gate_id -> row (registered gates only)
    gate_events,    \* table gate_events, in insertion order
    movement_logs,  \* table movement_logs, in insertion order
    alerts,         \* table alerts, in insertion order (the index is the id)
    audit_logs,     \* table audit_logs, in insertion order
    pairings,       \* table pairings joined with infants and mothers
    published,      \* what the gateway has published to the alerts topic
    result,         \* the last handler run: what the service logged about it
    sweep,          \* the escalation sweep's session (check_for_escalations)
    acks,           \* the acknowledge_alert requests in flight, one session each
    acked,          \* the answers acknowledge_alert has given, oldest first
    rtls_positions, \* table rtls_positions, in insertion order
    zones,          \* table zones, in the order the geofence query returns them
    infants,        \* table infants: the tag_id of each registered infant
    connections,    \* ConnectionManager: channel -> the websockets registered on it
    sockets,        \* every websocket: its endpoint's position, its link, what it was sent
    broadcasts,     \* the manager.broadcast_* calls in flight, each awaiting one send_text
    events,         \* every message handed to manager.broadcast_*, oldest first
    creating        \* the create_pairing requests between their checks and their commit

vars == <<inbox, nextSeq, now, gates, gate_events, movement_logs, alerts,
          audit_logs, pairings, published, result, sweep, acks, acked, rtls_positions,
          zones, infants,
                   connections, sockets, broadcasts, events, creating>>


NULL == "NULL"

\* the infants admitted to the ward (table infants, column tag_id)
RegisteredInfants == {"INF-01"}
\* a nullable timestamp column that holds NULL
NoTime == -1

(***************************************************************************)
(* Bounds of the model.                                                    *)
(***************************************************************************)
MaxMessages == 3
MaxInbox == 2
MaxTime == 7
MaxSweeps == 2
MaxAcks == 2
MaxPositions == 2
MaxEvents == 2
MaxCreates == 3
MaxCoord == 2
MantissaBits == 3
FracBits == 3
MaxExponent == 3

(***************************************************************************)
(* Python dict helpers.                                                    *)
(***************************************************************************)
EmptyDict == <<>>

Get(payload, key) == IF key \in DOMAIN payload THEN payload[key] ELSE NULL

GetDefault(payload, key, default) ==
    IF key \in DOMAIN payload THEN payload[key] ELSE default

(***************************************************************************)
(* Topics.                                                                 *)
(***************************************************************************)
G1 == "GATE-1"
G2 == "GATE-2"
G3 == "GATE-9"

\* GATE-1 and GATE-2 are rows of the gates table; GATE-9 is not.  Requests and
\* commands address GATE-1 and GATE-9; nothing addresses GATE-2.
RegisteredGates == {G1, G2}
GateIds == {G1, G3}

ControlTopic(gate_id) == <<"hospital", "gates", gate_id, "control">>
MovementTopic(zone) == <<"hospital", zone, "movements">>
AlertsTopic == <<"hospital", "alerts">>

\* a gate whose name holds a routing word: the subscription hospital/gates/+/control
\* admits any name
G4 == "alerts-east"

\* the names above of which a routing word is a proper part
Embedded == {<<"alerts", G4>>}

\* `word in segment`
IsSubstring(word, segment) == segment = word \/ <<word, segment>> \in Embedded

\* `word in topic`
Contains(word, topic) == \E i \in DOMAIN topic : IsSubstring(word, topic[i])

Route_IgnoresValidity(msg) ==
    IF Contains("movements", msg.topic) THEN "movement"
    ELSE IF Contains("alerts", msg.topic) THEN "alert"
    ELSE IF Contains("control", msg.topic) THEN "gate_control"
    ELSE "unknown_topic"
\* json.loads, then the if / elif chain of _on_message
Route(msg) ==
    IF ~msg.valid THEN "invalid_json"
    ELSE IF Contains("movements", msg.topic) THEN "movement"
    ELSE IF Contains("alerts", msg.topic) THEN "alert"
    ELSE IF Contains("control", msg.topic) THEN "gate_control"
    ELSE "unknown_topic"

\* paho hands the messages to on_message one at a time, oldest first
NextMessage_Newest(q) == q[Len(q)]
NextMessage(q) == Head(q)

Remaining_KeepsHead(q) == q
\* on_message returns and the network loop goes on to the next message
Remaining(q) == Tail(q)

(***************************************************************************)
(* The gate state machine: _handle_gate_control_event.                     *)
(***************************************************************************)
GateStates == {"OPEN", "CLOSED", "FORCED_OPEN", "HELD_OPEN", "UNKNOWN"}
Commands == {"UNLOCK", "ALARM", "CLEAR"}
ControlFailPoints == {"none", "insert", "update", "commit"}

\* parts[2] if len(parts) > 2 else "unknown"
GateIdOf(topic) == IF Len(topic) > 2 THEN topic[3] ELSE "unknown"

NewState_AlarmCloses(command) ==
    CASE command = "UNLOCK" -> "OPEN"
      [] command = "ALARM" -> "CLOSED"
      [] command = "CLEAR" -> "CLOSED"
      [] OTHER -> NULL
\* `state` after the if / elif chain on the command (None: no branch taken)
NewState(command) ==
    CASE command = "UNLOCK" -> "OPEN"
      [] command = "ALARM" -> "FORCED_OPEN"
      [] command = "CLEAR" -> "CLOSED"
      [] OTHER -> NULL

\* `event_type` after the if / elif chain
EventType(command) == IF command = "ALARM" THEN "forced" ELSE "gate_state"

SecurityAlarm(gate_id) ==
    [type |-> "security_alarm", severity |-> "critical",
     message |-> "Security Alarm triggered", reader_id |-> gate_id, tag_id |-> NULL]

AlarmAlerts_OnUnlockToo(command, gate_id) ==
    IF command \in {"ALARM", "UNLOCK"} THEN <<SecurityAlarm(gate_id)>> ELSE <<>>
\* the alerts the handler publishes before it touches the database
AlarmAlerts(command, gate_id) ==
    IF command = "ALARM" THEN <<SecurityAlarm(gate_id)>> ELSE <<>>

\* INSERT INTO gate_events (id, gate_id, event_type, state, timestamp):
\* previous_state is not among the columns, so the row holds NULL there
GateEventRow(seq, gate_id, command, t) ==
    [id |-> seq, gate_id |-> gate_id, event_type |-> EventType(command),
     state |-> NewState(command), previous_state |-> NULL, timestamp |-> t]

UpdateGates_OwnTransaction(g, gate_id, command, t) == g

\* UPDATE gates SET state = :state, last_state_change = :timestamp WHERE gate_id = :gate_id
\* with :state = state if state else "UNKNOWN"
UpdateGates(g, gate_id, command, t) ==
    [x \in DOMAIN g |->
        IF x = gate_id
        THEN [g[x] EXCEPT !.state = IF NewState(command) # NULL
                                     THEN NewState(command) ELSE "UNKNOWN",
                          !.last_state_change = t]
        ELSE g[x]]

(***************************************************************************)
(* The broker: arrival of messages, and the gateway's own publications,    *)
(* which come back to it because it subscribes to the alerts topic.        *)
(***************************************************************************)
Message(seq, topic, valid, payload) ==
    [seq |-> seq, topic |-> topic, valid |-> valid, payload |-> payload]

PublishAlerts_Withheld(rest, toPublish) ==
    /\ published' = published
    /\ inbox' = rest
    /\ nextSeq' = nextSeq

\* self.mqtt_client.publish(settings.mqtt_topic_alerts, json.dumps(alert), qos=1)
PublishAlerts(rest, toPublish) ==
    /\ published' = published \o toPublish
    /\ inbox' = rest \o [i \in 1..Len(toPublish) |->
                            Message(nextSeq + i - 1, AlertsTopic, TRUE, toPublish[i])]
    /\ nextSeq' = nextSeq + Len(toPublish)

Arrive(topic, valid, payload) ==
    /\ nextSeq <= MaxMessages
    /\ Len(inbox) < MaxInbox
    /\ inbox' = Append(inbox, Message(nextSeq, topic, valid, payload))
    /\ nextSeq' = nextSeq + 1
    /\ UNCHANGED <<now, gates, gate_events, movement_logs, alerts, audit_logs,
                   pairings, published, result, sweep, acks, acked,
                   rtls_positions, zones, infants,
                   connections, sockets, broadcasts, events, creating>>

ControlPayloads ==
    {[command |-> c] : c \in Commands \cup {"REBOOT"}} \cup {EmptyDict}

ArriveControl ==
    \E gate_id \in GateIds, payload \in ControlPayloads :
        Arrive(ControlTopic(gate_id), TRUE, payload)

\* what the service logs about one handler run, at the time of the run
Logged(handler, msg, outcome, check) ==
    [handler |-> handler, seq |-> msg.seq, msg |-> msg, outcome |-> outcome,
     check |-> check, at |-> now]

(***************************************************************************)
(* _on_message -> _handle_gate_control_event                               *)
(***************************************************************************)
HandleGateControl ==
    \E fail \in ControlFailPoints :
        /\ inbox # <<>>
        /\ Route(NextMessage(inbox)) = "gate_control"
        /\ LET msg == NextMessage(inbox)
               gate_id == GateIdOf(msg.topic)
               command == Get(msg.payload, "command")
           IN  /\ PublishAlerts(Remaining(inbox), AlarmAlerts(command, gate_id))
               /\ IF fail = "none"
                  THEN /\ gate_events' = Append(gate_events,
                                            GateEventRow(msg.seq, gate_id, command, now))
                       /\ gates' = UpdateGates(gates, gate_id, command, now)
                  ELSE UNCHANGED <<gate_events, gates>>
               /\ result' = Logged("gate_control", msg,
                                   IF fail = "none" THEN "committed" ELSE "rolled_back", NULL)
        /\ now' = now + 1
        /\ UNCHANGED <<movement_logs, alerts, audit_logs, pairings, sweep, acks, acked,
                   rtls_positions, zones, infants,
                   connections, sockets, broadcasts, events, creating>>

(***************************************************************************)
(* _on_message on a payload that is no JSON, or on a topic of no family.   *)
(***************************************************************************)
StatusTopic == <<"hospital", "gates", G1, "status">>

ArriveMalformed ==
    \E topic \in {ControlTopic(G1), MovementTopic("gate1"), AlertsTopic} :
        Arrive(topic, FALSE, EmptyDict)

ArriveUnknown == Arrive(StatusTopic, TRUE, [command |-> "UNLOCK"])

\* except json.JSONDecodeError: logger.error("invalid_json");
\* else: logger.warning("unknown_topic")
DropMessage ==
    /\ inbox # <<>>
    /\ Route(NextMessage(inbox)) \in {"invalid_json", "unknown_topic"}
    /\ inbox' = Remaining(inbox)
    /\ result' = Logged("dropped", NextMessage(inbox), Route(NextMessage(inbox)), NULL)
    /\ now' = now + 1
    /\ UNCHANGED <<nextSeq, gates, gate_events, movement_logs, alerts, audit_logs,
                   pairings, published, sweep, acks, acked,
                   rtls_positions, zones, infants,
                   connections, sockets, broadcasts, events, creating>>

(***************************************************************************)
(* _on_message -> _handle_alert_event                                      *)
(***************************************************************************)
AlertFailPoints == {"none", "insert", "commit"}

NoExtraData == [null |-> TRUE, dict |-> EmptyDict]
ExtraData(dict) == [null |-> FALSE, dict |-> dict]

\* INSERT INTO alerts (id, alert_type, severity, tag_id, reader_id, message, metadata, created_at)
AlertRow(payload, t) ==
    [alert_type |-> GetDefault(payload, "type", "unknown"),
     severity |-> GetDefault(payload, "severity", "warning"),
     tag_id |-> Get(payload, "tag_id"),
     reader_id |-> Get(payload, "reader_id"),
     message |-> GetDefault(payload, "message", "Alert triggered"),
     extra_data |-> ExtraData(EmptyDict),
     acknowledged |-> FALSE, acknowledged_by |-> NULL, acknowledged_at |-> NoTime,
     created_at |-> t]

HandleAlert ==
    \E fail \in AlertFailPoints :
        /\ inbox # <<>>
        /\ Route(NextMessage(inbox)) = "alert"
        /\ LET msg == NextMessage(inbox)
           IN  /\ inbox' = Remaining(inbox)
               /\ alerts' = IF fail = "none"
                            THEN Append(alerts, AlertRow(msg.payload, now))
                            ELSE alerts
               /\ result' = Logged("alert", msg,
                                   IF fail = "none" THEN "committed" ELSE "rolled_back", NULL)
        /\ now' = now + 1
        /\ UNCHANGED <<nextSeq, gates, gate_events, movement_logs, audit_logs,
                       pairings, published, sweep, acks, acked,
                   rtls_positions, zones, infants,
                   connections, sockets, broadcasts, events, creating>>

(***************************************************************************)
(* _on_message -> _handle_movement_event -> _check_gate_authorization      *)
(***************************************************************************)
InfantTags == {"INF-01", "INF-02"}
MovementFailPoints == {"none", "insert", "commit"}
LookupOutcomes == {"ok", "error"}

MovementPayloads ==
    {[tag_id |-> t, reader_id |-> "READER-1", event |-> e] :
        t \in InfantTags, e \in {"gate_approach", "zone_enter"}}
    \cup {[tag_id |-> "INF-02", reader_id |-> "READER-1"]}

ArriveMovement ==
    \E payload \in MovementPayloads : Arrive(MovementTopic("gate1"), TRUE, payload)

\* topic.split("/")[1] if len(topic.split("/")) > 1 else None
ZoneOf(topic) == IF Len(topic) > 1 THEN topic[2] ELSE NULL

\* INSERT INTO movement_logs (id, tag_id, reader_id, event_type, zone, metadata, timestamp)
MovementRow(seq, payload, topic, t) ==
    [id |-> seq, tag_id |-> Get(payload, "tag_id"), reader_id |-> Get(payload, "reader_id"),
     event_type |-> GetDefault(payload, "event", "unknown"), zone |-> ZoneOf(topic),
     timestamp |-> t]

ActivePairings_AnyStatus(tag_id) == {p \in pairings : p.infant_tag = tag_id}
\* SELECT p.id, m.tag_id FROM pairings p JOIN infants i ... JOIN mothers m ...
\* WHERE i.tag_id = :tag_id AND p.status = 'active'
ActivePairings(tag_id) ==
    {p \in pairings : p.infant_tag = tag_id /\ p.status = "ACTIVE"}

UnauthorizedApproach(payload) ==
    [type |-> "unauthorized_gate_approach", severity |-> "critical",
     tag_id |-> Get(payload, "tag_id"), reader_id |-> Get(payload, "reader_id"),
     message |-> "approaching gate without authorized pairing"]

\* what _check_gate_authorization logs: the query raised, no row came back, or a row did
CheckOutcome(payload, lookup) ==
    IF lookup = "error" THEN "error"
    ELSE IF ActivePairings(Get(payload, "tag_id")) = {} THEN "denied"
    ELSE "pairing_found"

AuthorizationAlerts_OnErrorToo(payload, lookup) ==
    IF CheckOutcome(payload, lookup) \in {"denied", "error"}
    THEN <<UnauthorizedApproach(payload)>>
    ELSE <<>>

\* the alerts _check_gate_authorization publishes
AuthorizationAlerts(payload, lookup) ==
    IF CheckOutcome(payload, lookup) = "denied"
    THEN <<UnauthorizedApproach(payload)>>
    ELSE <<>>

HandleMovement ==
    \E fail \in MovementFailPoints, lookup \in LookupOutcomes :
        /\ inbox # <<>>
        /\ Route(NextMessage(inbox)) = "movement"
        /\ LET msg == NextMessage(inbox)
               checked == fail = "none" /\ Get(msg.payload, "event") = "gate_approach"
           IN  /\ movement_logs' =
                     IF fail = "none"
                     THEN Append(movement_logs, MovementRow(msg.seq, msg.payload, msg.topic, now))
                     ELSE movement_logs
               /\ PublishAlerts(Remaining(inbox),
                                IF checked THEN AuthorizationAlerts(msg.payload, lookup)
                                ELSE <<>>)
               /\ result' = Logged("movement", msg,
                                   IF fail = "none" THEN "committed" ELSE "rolled_back",
                                   IF checked THEN CheckOutcome(msg.payload, lookup)
                                   ELSE "not_run")
        /\ now' = now + 1
        /\ UNCHANGED <<gates, gate_events, alerts, audit_logs, pairings, sweep, acks, acked,
                   rtls_positions, zones, infants,
                   connections, sockets, broadcasts, events, creating>>

(***************************************************************************)
(* POST /pairings/verify-exit: verify_gate_exit                            *)
(***************************************************************************)
GuardianTags == {"MOM-01", "MOM-02"}

Request(seq, path, body) == Message(seq, path, TRUE, body)

VerifyGateExit ==
    \E infant \in InfantTags, mother \in GuardianTags, gate_id \in RegisteredGates :
        /\ nextSeq <= MaxMessages
        /\ nextSeq' = nextSeq + 1
        /\ result' = Logged("verify_exit",
                            Request(nextSeq, <<"pairings", "verify-exit", gate_id>>,
                                    [infant_tag_id |-> infant, mother_tag_id |-> mother]),
                            "not_authorized", NULL)
        /\ now' = now + 1
        /\ UNCHANGED <<inbox, gates, gate_events, movement_logs, alerts, audit_logs,
                       pairings, published, sweep, acks, acked,
                   rtls_positions, zones, infants,
                   connections, sockets, broadcasts, events, creating>>

(***************************************************************************)
(* PATCH /gates/{gate_id}: update_gate                                     *)
(***************************************************************************)
\* GateUpdate: a field left out of the request is None
GateUpdates ==
    {[k \in keys |-> CASE k = "name" -> "Main door"
                       [] k = "zone" -> "west"
                       [] k = "camera_id" -> "cam-1"
                       [] k = "state" -> st] :
        keys \in (SUBSET {"name", "state"}) \cup {{"zone", "camera_id"}},
        st \in {"OPEN", "HELD_OPEN", "AJAR"}}

SetIfGiven(row, data, field) ==
    IF Get(data, field) # NULL
    THEN [row EXCEPT ![field] = data[field]]
    ELSE row

\* the four `if gate_data.<field> is not None` of update_gate
UpdateGateRow(row, data, t) ==
    LET meta == SetIfGiven(SetIfGiven(SetIfGiven(row, data, "name"), data, "zone"),
                           data, "camera_id")
    IN  IF Get(data, "state") # NULL
        THEN [meta EXCEPT !.state = data["state"], !.last_state_change = t]
        ELSE meta

\* 404 when the gate is not registered; GateState(gate_data.state) raises on a value
\* that is no member of the enum, and get_db rolls the session back
UpdateGateOutcome(gate_id, data, fail) ==
    IF gate_id \notin DOMAIN gates THEN "not_found"
    ELSE IF Get(data, "state") # NULL /\ data["state"] \notin GateStates THEN "error"
    ELSE IF fail # "none" THEN "rolled_back"
    ELSE "committed"

UpdateGate ==
    \E gate_id \in GateIds, data \in GateUpdates, fail \in {"none", "commit"} :
        /\ nextSeq <= MaxMessages
        /\ nextSeq' = nextSeq + 1
        /\ gates' = IF UpdateGateOutcome(gate_id, data, fail) = "committed"
                    THEN [gates EXCEPT ![gate_id] = UpdateGateRow(gates[gate_id], data, now)]
                    ELSE gates
        /\ result' = Logged("update_gate",
                            Request(nextSeq, <<"api", "gates", gate_id>>, data),
                            UpdateGateOutcome(gate_id, data, fail), NULL)
        /\ now' = now + 1
        /\ UNCHANGED <<inbox, gate_events, movement_logs, alerts, audit_logs,
                       pairings, published, sweep, acks, acked,
                   rtls_positions, zones, infants,
                   connections, sockets, broadcasts, events, creating>>

(***************************************************************************)
(* check_for_escalations: one sweep of the alert escalation worker.        *)
(* Time is counted in minutes.                                             *)
(***************************************************************************)
ESCALATION_THRESHOLD_MINUTES == 5

AlertIds == DOMAIN alerts

\* `not alert.extra_data`: None or an empty dict
Empty(extra) == extra.null \/ DOMAIN extra.dict = {}

\* truth of a JSON value read back from the column
Truthy(v) == v \notin {NULL, "False"}

Overdue_AnySeverity(t) ==
    {i \in AlertIds : /\ ~alerts[i].acknowledged
                      /\ alerts[i].created_at < t - ESCALATION_THRESHOLD_MINUTES}
\* select(Alert).where(severity == CRITICAL, acknowledged.is_(False), created_at < threshold_time)
Overdue(t) ==
    {i \in AlertIds : /\ alerts[i].severity = "CRITICAL"
                      /\ ~alerts[i].acknowledged
                      /\ alerts[i].created_at < t - ESCALATION_THRESHOLD_MINUTES}

\* if alert.extra_data and alert.extra_data.get("escalated"): continue
AlreadyEscalated(extra) == ~Empty(extra) /\ Truthy(Get(extra.dict, "escalated"))

\* alert.extra_data["escalated"] = True; alert.extra_data["escalated_at"] = utcnow().isoformat()
MarkEscalated(extra, t) ==
    LET d == IF Empty(extra) THEN EmptyDict ELSE extra.dict
    IN  ExtraData([k \in DOMAIN d \cup {"escalated", "escalated_at"} |->
                      CASE k = "escalated" -> "True"
                        [] k = "escalated_at" -> ToString(t)
                        [] OTHER -> d[k]])

\* extra_data is a plain JSONB column (no MutableDict): the session sees a change of the
\* attribute only when it is assigned, which the loop does only in
\* `if not alert.extra_data: alert.extra_data = {}`; a change made inside a dict loaded
\* from the row is not seen, and the flush writes no UPDATE for it
Tracked(extra) == Empty(extra)

AuditRow(alert_id) ==
    [action |-> "ALERT_ESCALATED", resource_type |-> "alert", resource_id |-> alert_id,
     user_id |-> NULL]

\* the UPDATE the flush emits for an alert whose extra_data attribute changed
SweepUpdate(row, extra) == [row EXCEPT !.extra_data = extra]

\* the rows of the query that the loop does not skip
Selected(t) == {i \in Overdue(t) : ~AlreadyEscalated(alerts[i].extra_data)}

\* where a sweep may raise: nowhere, in the query, or in the loop body at one of the alerts
\* it escalates; the one try / except of check_for_escalations encloses all of them
NoFailure == [point |-> "none", alert |-> 0]
SweepFailures(t) ==
    {NoFailure, [point |-> "query", alert |-> 0]}
        \cup {[point |-> "loop", alert |-> i] : i \in Selected(t)}

\* the query and the loop over its rows: no await between them
SweepSelectWith(fail) ==
    /\ sweep.pc = "idle"
    /\ sweep.runs < MaxSweeps
    /\ fail \in SweepFailures(now)
    /\ LET todo == Selected(now)
           inTodo(i) == i \in todo
           order == SelectSeq([i \in 1..Len(alerts) |-> i], inTodo)
       IN  sweep' =
             IF fail = NoFailure
             THEN [sweep EXCEPT
                     !.pc = "loaded",
                     !.failed = 0,
                     !.todo = todo,
                     !.writes = [i \in {j \in todo : Tracked(alerts[j].extra_data)} |->
                                    MarkEscalated(alerts[i].extra_data, now)],
                     !.audits = [k \in 1..Len(order) |-> AuditRow(order[k])]]
             ELSE [sweep EXCEPT !.failed = fail.alert]
    /\ UNCHANGED <<inbox, nextSeq, now, gates, gate_events, movement_logs, alerts,
                   audit_logs, pairings, published, result, acks, acked,
                   rtls_positions, zones, infants,
                   connections, sockets, broadcasts, events, creating>>

SweepSelect == \E fail \in SweepFailures(now) : SweepSelectWith(fail)

\* await db.commit(): the flush (UPDATE alerts, INSERT audit_logs) and the commit.
\* sweep.runs counts the sweeps that wrote something.
SweepCommitWith(fail) ==
    /\ sweep.pc = "loaded"
    /\ IF fail = "none"
       THEN /\ alerts' = [i \in AlertIds |->
                            IF i \in DOMAIN sweep.writes
                            THEN SweepUpdate(alerts[i], sweep.writes[i])
                            ELSE alerts[i]]
            /\ audit_logs' = audit_logs \o sweep.audits
            /\ sweep' = [sweep EXCEPT !.pc = "idle", !.todo = {}, !.writes = <<>>,
                                      !.audits = <<>>, !.marked = @ \cup sweep.todo,
                                      !.runs = IF sweep.todo = {} THEN @ ELSE @ + 1]
       ELSE /\ sweep' = [sweep EXCEPT !.pc = "idle", !.todo = {}, !.writes = <<>>,
                                      !.audits = <<>>]
            /\ UNCHANGED <<alerts, audit_logs>>
    /\ UNCHANGED <<inbox, nextSeq, now, gates, gate_events, movement_logs,
                   pairings, published, result, acks, acked,
                   rtls_positions, zones, infants,
                   connections, sockets, broadcasts, events, creating>>

SweepCommit == \E fail \in {"none", "commit"} : SweepCommitWith(fail)

(***************************************************************************)
(* POST /alerts/{alert_id}/acknowledge: acknowledge_alert                  *)
(***************************************************************************)
AckUpdate_Toggles(row, ack) ==
    [row EXCEPT !.acknowledged = ~row.acknowledged, !.acknowledged_at = ack.at]
\* the UPDATE of the flush: the two attributes the handler assigned, nothing else
AckUpdate(row, ack) ==
    [row EXCEPT !.acknowledged = TRUE, !.acknowledged_at = ack.at]

\* current_user of the request: require_roles(["admin", "security", "nurse"])
Operators == {"nurse-1"}

\* what a request came to: its status, the operator, the time of the handler's utcnow(),
\* and whether the row it read was acknowledged already
Answer(alert_id, status, at, by, already) ==
    [id |-> alert_id, status |-> status, at |-> at, by |-> by, already |-> already]

\* the select, the two assignments and the flush; 404 when no row has the id
AckSelect ==
    \E alert_id \in 1..(Len(alerts) + 1), by \in Operators :
        /\ Len(acked) + Cardinality(acks) < MaxAcks
        /\ IF alert_id \in AlertIds
           THEN /\ acks' = acks \cup {[id |-> alert_id, at |-> now, by |-> by,
                                        seen |-> alerts[alert_id]]}
                /\ UNCHANGED acked
           ELSE /\ acked' = Append(acked, Answer(alert_id, 404, now, by, FALSE))
                /\ UNCHANGED acks
        /\ UNCHANGED <<inbox, nextSeq, now, gates, gate_events, movement_logs, alerts,
                       audit_logs, pairings, published, result, sweep,
                   rtls_positions, zones, infants,
                   connections, sockets, broadcasts, events, creating>>

\* get_db: commit after the handler returned, rollback when the commit raises
AckCommit ==
    \E ack \in acks, fail \in {"none", "commit"} :
        /\ acks' = acks \ {ack}
        /\ IF fail = "none"
           THEN /\ alerts' = [alerts EXCEPT ![ack.id] = AckUpdate(@, ack)]
                /\ acked' = Append(acked, Answer(ack.id, 200, ack.at, ack.by,
                                                 ack.seen.acknowledged))
           ELSE /\ acked' = Append(acked, Answer(ack.id, 500, ack.at, ack.by,
                                                 ack.seen.acknowledged))
                /\ UNCHANGED alerts
        /\ UNCHANGED <<inbox, nextSeq, now, gates, gate_events, movement_logs,
                       audit_logs, pairings, published, result, sweep,
                   rtls_positions, zones, infants,
                   connections, sockets, broadcasts, events, creating>>

Tick ==
    /\ now < MaxTime
    /\ now' = now + 1
    /\ UNCHANGED <<inbox, nextSeq, gates, gate_events, movement_logs, alerts,
                   audit_logs, pairings, published, result, sweep, acks, acked,
                   rtls_positions, zones, infants,
                   connections, sockets, broadcasts, events, creating>>

(***************************************************************************)
(* Python floats.  A float is a binary floating-point number: a mantissa   *)
(* of MantissaBits bits times a power of two, and every operation rounds   *)
(* its exact result to the nearest such number, ties to the even mantissa  *)
(* (IEEE 754, which Python's float follows with 53 bits).  A number is     *)
(* held as its count of units of 2^-FracBits, the smallest power of two.   *)
(***************************************************************************)
Unit == 2 ^ FracBits

Abs(n) == IF n < 0 THEN -n ELSE n

\* the power of two by which the mantissa of the non-negative a / d is scaled
Exponent(a, d) ==
    IF a >= (2 ^ (MantissaBits + MaxExponent)) * d THEN MaxExponent
    ELSE CHOOSE j \in 0..MaxExponent :
            /\ a < (2 ^ (MantissaBits + j)) * d
            /\ j = 0 \/ a >= (2 ^ (MantissaBits + j - 1)) * d

\* n / d (d > 0) rounded to the nearest float, ties to even
Fl(n, d) ==
    LET a == Abs(n)
        u == d * (2 ^ Exponent(a, d))
        m == a \div u
        r == a - m * u
        up == 2 * r > u \/ (2 * r = u /\ m % 2 = 1)
        mag == (IF up THEN m + 1 ELSE m) * (2 ^ Exponent(a, d))
    IN  IF n < 0 THEN -mag ELSE mag

FAdd(a, b) == Fl(a + b, 1)
FSub(a, b) == Fl(a - b, 1)
FMul(a, b) == Fl(a * b, Unit)
FDiv(a, b) == IF b < 0 THEN Fl(-(a * Unit), -b) ELSE Fl(a * Unit, b)

Min(a, b) == IF a <= b THEN a ELSE b
Max(a, b) == IF a >= b THEN a ELSE b

\* the float of a whole number
Float(k) == k * Unit

(***************************************************************************)
(* is_point_in_polygon: ray casting.                                       *)
(***************************************************************************)
Point(x, y) == [x |-> x, y |-> y]

\* (y - p1y) * (p2x - p1x) / (p2y - p1y) + p1x
XInters(y, p1, p2) ==
    FAdd(FDiv(FMul(FSub(y, p1.y), FSub(p2.x, p1.x)), FSub(p2.y, p1.y)), p1.x)

\* the body of the loop for one edge p1 -> p2: does it flip `inside`?
\* (xinters is read only in an iteration that has just assigned it)
Crosses(x, y, p1, p2) ==
    /\ y > Min(p1.y, p2.y)
    /\ y <= Max(p1.y, p2.y)
    /\ x <= Max(p1.x, p2.x)
    /\ p1.x = p2.x \/ x <= XInters(y, p1, p2)

RECURSIVE Cast(_, _, _, _, _)
\* for i in range(i, num_vertices + 1), with p1 the vertex before polygon[i % n]
Cast(x, y, polygon, i, inside) ==
    IF i > Len(polygon) THEN inside
    ELSE LET p1 == polygon[i]
             p2 == polygon[(i % Len(polygon)) + 1]
         IN  Cast(x, y, polygon, i + 1,
                  IF Crosses(x, y, p1, p2) THEN ~inside ELSE inside)

is_point_in_polygon(x, y, polygon) ==
    IF polygon = <<>> THEN FALSE ELSE Cast(x, y, polygon, 1, FALSE)

(***************************************************************************)
(* check_geofence, as create_position calls it for every position report.  *)
(***************************************************************************)
\* class ZoneType
ZoneTypes == {"AUTHORIZED", "RESTRICTED", "EXIT"}

Floors == {"1", "2"}

\* class Zone
ZoneRow(id, name, floor, zone_type, polygon, is_active) ==
    [id |-> id, name |-> name, floor |-> floor, zone_type |-> zone_type,
     polygon |-> polygon, is_active |-> is_active]

ActiveZones_IgnoresActiveFlag(floor) ==
    SelectSeq(zones, LAMBDA zone : zone.floor = floor)

\* select(Zone).where(and_(Zone.floor == floor, Zone.is_active.is_(True)))
ActiveZones(floor) ==
    SelectSeq(zones, LAMBDA zone : zone.floor = floor /\ zone.is_active)

\* Alert(alert_type="GEOFENCE_VIOLATION", ...)
ViolationAlert(zone, tag_id, asset_type, x, y, floor, t) ==
    [alert_type |-> "GEOFENCE_VIOLATION",
     severity |-> "CRITICAL",
     tag_id |-> tag_id,
     reader_id |-> NULL,
     message |-> <<"Unauthorized access: Tag", tag_id, asset_type,
                   "detected in Restricted Zone:", zone.name>>,
     extra_data |-> ExtraData([zone_id |-> zone.id, zone_name |-> zone.name,
                               x |-> x, y |-> y, floor |-> floor]),
     acknowledged |-> FALSE, acknowledged_by |-> NULL, acknowledged_at |-> NoTime,
     created_at |-> t]

\* Alert(alert_type="EXIT_DETECTED", ...)
ExitAlert(zone, tag_id, t) ==
    [alert_type |-> "EXIT_DETECTED",
     severity |-> "WARNING",
     tag_id |-> tag_id,
     reader_id |-> NULL,
     message |-> <<"Tag", tag_id, "detected at Exit:", zone.name>>,
     extra_data |-> ExtraData([zone |-> zone.name]),
     acknowledged |-> FALSE, acknowledged_by |-> NULL, acknowledged_at |-> NoTime,
     created_at |-> t]

\* the body of `for zone in zones`: the alerts one zone adds to alerts_generated
ZoneAlerts(zone, tag_id, asset_type, x, y, floor, t) ==
    IF zone.zone_type = "RESTRICTED"
    THEN IF is_point_in_polygon(x, y, zone.polygon)
         THEN <<ViolationAlert(zone, tag_id, asset_type, x, y, floor, t)>>
         ELSE <<>>
    ELSE IF /\ zone.zone_type = "EXIT"
            /\ is_point_in_polygon(x, y, zone.polygon)
            /\ asset_type = "infant"
            /\ tag_id \in infants
         THEN <<ExitAlert(zone, tag_id, t)>>
         ELSE <<>>

RECURSIVE Generated(_, _, _, _, _, _, _)
Generated(todo, tag_id, asset_type, x, y, floor, t) ==
    IF todo = <<>> THEN <<>>
    ELSE ZoneAlerts(Head(todo), tag_id, asset_type, x, y, floor, t)
            \o Generated(Tail(todo), tag_id, asset_type, x, y, floor, t)

check_geofence(tag_id, asset_type, x, y, floor, t) ==
    Generated(ActiveZones(floor), tag_id, asset_type, x, y, floor, t)

(***************************************************************************)
(* POST /rtls/positions -> create_position: one transaction that stores    *)
(* the position and the alerts of check_geofence, then the broadcasts.     *)
(***************************************************************************)
\* RTLSPositionCreate.asset_type with a tag_id: INF-09 is a tag no infant wears
AssetTags ==
    {<<"infant", "INF-01">>, <<"infant", "INF-09">>, <<"guardian", "MOM-01">>,
     <<"staff", "STF-01">>, <<"equipment", "EQ-01">>}

\* 0.5, 1.5 and 2.5 on the diagonal
PositionPoints ==
    {Point(k * Unit + (Unit \div 2), k * Unit + (Unit \div 2)) : k \in 0..2}

\* where the handler may raise: nowhere, in the zone query of check_geofence, in
\* db.commit(), or in db.refresh(position) after the commit
PositionFailPoints == {"none", "query", "commit", "refresh"}

\* class RTLSPosition
PositionRow(data, t) ==
    [tag_id |-> data.tag_id, asset_type |-> data.asset_type, x |-> data.x, y |-> data.y,
     floor |-> data.floor, timestamp |-> t]

LiveUpdates_BeforeCommit(fail, position, found) == <<position>> \o found

\* broadcast_position_update(position), then broadcast_alert for each alert: the calls
\* the handler makes, in order; they follow db.commit() and db.refresh()
LiveUpdates(fail, position, found) ==
    IF fail = "none" THEN <<position>> \o found ELSE <<>>

CreatePosition ==
    \E at \in AssetTags, pt \in PositionPoints, floor \in Floors,
       fail \in PositionFailPoints :
        /\ now <= MaxPositions
        /\ LET data == [tag_id |-> at[2], asset_type |-> at[1],
                        x |-> pt.x, y |-> pt.y, floor |-> floor]
               found == IF fail = "query" THEN <<>>
                        ELSE check_geofence(data.tag_id, data.asset_type,
                                            data.x, data.y, data.floor, now)
               request == Message(now, <<"rtls", "positions">>, TRUE, data)
           IN  /\ IF fail \in {"none", "refresh"}
                  THEN /\ rtls_positions' = Append(rtls_positions, PositionRow(data, now))
                       /\ alerts' = alerts \o found
                  ELSE UNCHANGED <<rtls_positions, alerts>>
               /\ result' = Logged("create_position", request,
                                   [status |-> IF fail = "none" THEN 201 ELSE 500,
                                    returned |-> fail # "query",
                                    alerts |-> found,
                                    broadcast |->
                                        LiveUpdates(fail, PositionRow(data, now), found)],
                                   NULL)
        /\ now' = now + 1
        /\ UNCHANGED <<inbox, nextSeq, gates, gate_events, movement_logs, audit_logs,
                       pairings, published, sweep, acks, acked, zones, infants,
                   connections, sockets, broadcasts, events, creating>>

(***************************************************************************)
(* The live channels: ConnectionManager and the three websocket endpoints. *)
(* The event loop runs one coroutine at a time and switches at an await,   *)
(* so an action is the code between two awaits.                            *)
(***************************************************************************)
Channels == {"positions", "gates", "alerts"}

\* the websockets that may connect
Observers == {"ws1", "ws2"}

\* the client's side of a websocket: it reads what is sent ("open"), reads it late
\* ("slow"), or is gone, so that every send_text raises ("broken")
Links == {"open", "slow", "broken"}

\* pc: "closed" before the endpoint runs, "accepted" from connect_* to the snapshot,
\* "live" in the receive loop, "gone" after the endpoint returned;
\* dropped: how many events had been published when a broadcast discarded it
NoSocket ==
    [pc |-> "closed", channel |-> NULL, link |-> "open", received |-> <<>>, dropped |-> NoTime]

InitStream ==
    /\ connections = [ch \in Channels |-> {}]
    /\ sockets = [o \in Observers |-> NoSocket]
    /\ broadcasts = {}
    /\ events = <<>>

\* {"type": "initial", ...}
Snapshot == [type |-> "initial", id |-> 0]

\* {"type": "position" | "event" | "alert", "data": ...}
Update(ch, id) ==
    [type |-> CASE ch = "positions" -> "position" [] ch = "gates" -> "event"
                [] OTHER -> "alert",
     id |-> id]

\* connect_*: await websocket.accept(), then add the websocket to the channel's set;
\* the endpoint goes on to the snapshot query, which awaits
Connect(o, ch, link) ==
    /\ sockets[o].pc = "closed"
    /\ sockets' = [sockets EXCEPT ![o].pc = "accepted", ![o].channel = ch, ![o].link = link]
    /\ connections' = [connections EXCEPT ![ch] = @ \cup {o}]
    /\ UNCHANGED <<broadcasts, events>>

\* the client goes away
Break(o) ==
    /\ sockets[o].pc \in {"accepted", "live"}
    /\ sockets[o].link # "broken"
    /\ sockets' = [sockets EXCEPT ![o].link = "broken"]
    /\ UNCHANGED <<connections, broadcasts, events>>

\* the endpoint after the query: send the snapshot and enter the receive loop; an
\* exception ends the endpoint through disconnect_*
SendSnapshot(o) ==
    /\ sockets[o].pc = "accepted"
    /\ IF sockets[o].link = "broken"
       THEN /\ sockets' = [sockets EXCEPT ![o].pc = "gone"]
            /\ connections' = [connections EXCEPT ![sockets[o].channel] = @ \ {o}]
       ELSE /\ sockets' = [sockets EXCEPT ![o].pc = "live",
                                          ![o].received = Append(@, Snapshot)]
            /\ UNCHANGED connections
    /\ UNCHANGED <<broadcasts, events>>

\* the receive loop of a websocket whose client is gone: receive_text or the heartbeat
\* raises and the endpoint ends through disconnect_*
EndpointDisconnect(o) ==
    /\ sockets[o].pc = "live"
    /\ sockets[o].link = "broken"
    /\ sockets' = [sockets EXCEPT ![o].pc = "gone"]
    /\ connections' = [connections EXCEPT ![sockets[o].channel] = @ \ {o}]
    /\ UNCHANGED <<broadcasts, events>>

\* a broadcast_* call at `await connection.send_text(message)`: todo is what is left
\* of list(self.*_connections), awaiting the connection being sent to
Broadcast(id, ch, todo, awaiting) ==
    [id |-> id, channel |-> ch, todo |-> todo, awaiting |-> awaiting]

\* `for connection in list(...)`: the next connections the loop may turn to (a set is
\* listed in no particular order)
NextConnections(todo) == todo

\* broadcast_position_update / broadcast_gate_event / broadcast_alert -> broadcast_*:
\* return at once when nobody is connected, otherwise copy the set and start the
\* first send
Publish(ch) ==
    /\ Len(events) < MaxEvents
    /\ LET id == Len(events) + 1
       IN  /\ events' = Append(events, [id |-> id, channel |-> ch,
                                        targets |-> connections[ch]])
           /\ IF connections[ch] = {}
              THEN UNCHANGED broadcasts
              ELSE \E c \in NextConnections(connections[ch]) :
                      broadcasts' = broadcasts
                                      \cup {Broadcast(id, ch, connections[ch] \ {c}, c)}
    /\ UNCHANGED <<connections, sockets>>

Discard_KeepsConnection(registered, c) == registered

\* self.*_connections.discard(connection)
Discard(registered, c) == registered \ {c}

\* the awaited send_text returns or raises; the loop goes on to the next connection of
\* its list or the broadcast returns
SendDone(b) ==
    /\ b \in broadcasts
    /\ LET c == b.awaiting
           failed == sockets[c].link = "broken"
       IN  /\ IF failed
              THEN /\ connections' = [connections EXCEPT ![b.channel] = Discard(@, c)]
                   /\ sockets' = [sockets EXCEPT ![c].dropped =
                                      IF @ = NoTime THEN Len(events) ELSE @]
              ELSE /\ sockets' = [sockets EXCEPT ![c].received =
                                      Append(@, Update(b.channel, b.id))]
                   /\ UNCHANGED connections
           /\ IF b.todo = {}
              THEN broadcasts' = broadcasts \ {b}
              ELSE \E n \in NextConnections(b.todo) :
                      broadcasts' = (broadcasts \ {b})
                                      \cup {Broadcast(b.id, b.channel, b.todo \ {n}, n)}
    /\ UNCHANGED events

StreamFrame ==
    UNCHANGED <<inbox, nextSeq, now, gates, gate_events, movement_logs, alerts,
                audit_logs, pairings, published, result, sweep, acks, acked,
                rtls_positions, zones, infants, creating>>

NextStream ==
    \/ \E o \in Observers, ch \in Channels, link \in Links : Connect(o, ch, link) /\ StreamFrame
    \/ \E o \in Observers : Break(o) /\ StreamFrame
    \/ \E o \in Observers : SendSnapshot(o) /\ StreamFrame
    \/ \E o \in Observers : EndpointDisconnect(o) /\ StreamFrame
    \/ \E ch \in Channels : Publish(ch) /\ StreamFrame
    \/ \E b \in broadcasts : SendDone(b) /\ StreamFrame

(***************************************************************************)
(* POST /pairings -> create_pairing: three SELECTs, then the INSERT and    *)
(* its commit.  Requests run as coroutines with a session each, so another *)
(* request may run between the checks and the commit.                      *)
(***************************************************************************)
\* table mothers (column tag_id)
RegisteredMothers == {"MOM-01", "MOM-02"}

\* PairingCreate: INF-09 and MOM-09 are in no table
PairingInfants == {"INF-01", "INF-09"}
PairingMothers == {"MOM-01", "MOM-02", "MOM-09"}

\* Pairing(infant_id=..., mother_id=..., status=PairingStatus.ACTIVE)
NewPairing(id, infant, mother) ==
    [id |-> id, infant_tag |-> infant, mother_tag |-> mother, status |-> "ACTIVE"]

\* select(Pairing).where(infant_id == infant.id).where(status == ACTIVE): what is
\* committed when the query runs
ExistingActive(infant) ==
    {p \in pairings : p.infant_tag = infant /\ p.status = "ACTIVE"}

\* lines 88-107: infant found, no active pairing, mother found
PairingCheck ==
    \E infant \in PairingInfants, mother \in PairingMothers :
        /\ nextSeq <= MaxCreates
        /\ nextSeq' = nextSeq + 1
        /\ LET request == Message(nextSeq, <<"pairings">>, TRUE,
                                  [infant_id |-> infant, mother_id |-> mother])
               status == IF infant \notin infants THEN 404
                         ELSE IF ExistingActive(infant) # {} THEN 400
                         ELSE IF mother \notin RegisteredMothers THEN 404
                         ELSE 0
           IN  /\ result' = Logged("create_pairing", request, status, NULL)
               /\ creating' = IF status = 0
                              THEN creating \cup {[id |-> nextSeq, infant |-> infant,
                                                    mother |-> mother]}
                              ELSE creating
        /\ UNCHANGED <<inbox, now, gates, gate_events, movement_logs, alerts, audit_logs,
                       pairings, published, sweep, acks, acked, rtls_positions, zones,
                       infants, connections, sockets, broadcasts, events>>

\* lines 110-134: db.add(new_pairing); await db.commit()
PairingCommit ==
    \E c \in creating, fail \in {"none", "commit"} :
        /\ creating' = creating \ {c}
        /\ pairings' = IF fail = "none"
                       THEN pairings \cup {NewPairing(c.id, c.infant, c.mother)}
                       ELSE pairings
        /\ result' = Logged("create_pairing",
                            Message(c.id, <<"pairings">>, TRUE,
                                    [infant_id |-> c.infant, mother_id |-> c.mother]),
                            IF fail = "none" THEN 201 ELSE 500, NULL)
        /\ UNCHANGED <<inbox, nextSeq, now, gates, gate_events, movement_logs, alerts,
                       audit_logs, published, sweep, acks, acked, rtls_positions, zones,
                       infants, connections, sockets, broadcasts, events>>

(***************************************************************************)
(* Initial states and the specification of the gate state machine.         *)
(***************************************************************************)
NoResult ==
    [handler |-> "none", seq |-> 0, msg |-> Message(0, <<>>, TRUE, EmptyDict),
     outcome |-> NULL, check |-> NULL, at |-> 0]

\* class Gate: a registered gate is in some state; last_state_change is its creation time
GateRow(state) ==
    [state |-> state, last_state_change |-> 0,
     name |-> "Door", zone |-> "lobby", camera_id |-> NULL]

NoSweep ==
    [pc |-> "idle", runs |-> 0, failed |-> 0, todo |-> {}, writes |-> <<>>, audits |-> <<>>,
     marked |-> {}]

InitCommon ==
    /\ inbox = <<>>
    /\ nextSeq = 1
    /\ gate_events = <<>>
    /\ movement_logs = <<>>
    /\ audit_logs = <<>>
    /\ published = <<>>
    /\ result = NoResult
    /\ sweep = NoSweep
    /\ acks = {}
    /\ acked = <<>>
    /\ rtls_positions = <<>>
    /\ zones = <<>>
    /\ infants = RegisteredInfants
    /\ InitStream
    /\ creating = {}

Init ==
    /\ InitCommon
    /\ now = 1
    /\ alerts = <<>>
    /\ pairings = {}
    /\ \E s \in GateStates : gates = (G1 :> GateRow(s)) @@ (G2 :> GateRow("CLOSED"))

Next ==
    \/ ArriveControl
    \/ HandleGateControl
    \/ HandleAlert

Spec == Init /\ [][Next]_vars

(***************************************************************************)
(* The gateway on movement events, with the exit verification endpoint.    *)
(***************************************************************************)
Pairing(infant, mother, status) ==
    [id |-> 0, infant_tag |-> infant, mother_tag |-> mother, status |-> status]

PairingTables ==
    SUBSET {Pairing("INF-01", "MOM-01", "ACTIVE"), Pairing("INF-02", "MOM-02", "DISCHARGED")}

InitMovement ==
    /\ InitCommon
    /\ now = 1
    /\ alerts = <<>>
    /\ pairings \in PairingTables
    /\ gates = (G1 :> GateRow("OPEN")) @@ (G2 :> GateRow("CLOSED"))

NextMovement ==
    \/ ArriveMovement
    \/ HandleMovement
    \/ HandleAlert
    \/ VerifyGateExit

SpecMovement == InitMovement /\ [][NextMovement]_vars

(***************************************************************************)
(* The gate state machine beside the administrative gate update.           *)
(***************************************************************************)
NextAdmin ==
    \/ ArriveControl
    \/ HandleGateControl
    \/ HandleAlert
    \/ UpdateGate

SpecAdmin == Init /\ [][NextAdmin]_vars

(***************************************************************************)
(* The gateway on everything the broker may hand it.                       *)
(***************************************************************************)
InitIngest ==
    /\ InitCommon
    /\ now = 1
    /\ alerts = <<>>
    /\ pairings = {Pairing("INF-01", "MOM-01", "ACTIVE")}
    /\ gates = (G1 :> GateRow("CLOSED")) @@ (G2 :> GateRow("CLOSED"))

NextIngest ==
    \/ ArriveControl
    \/ ArriveMovement
    \/ ArriveMalformed
    \/ ArriveUnknown
    \/ HandleGateControl
    \/ HandleMovement
    \/ HandleAlert
    \/ DropMessage

SpecIngest == InitIngest /\ [][NextIngest]_vars

(***************************************************************************)
(* is_point_in_polygon on its own: a call with its arguments, then its     *)
(* return value.                                                           *)
(***************************************************************************)
\* the floats between -1 and MaxCoord + 1
PointValues == {v \in (-Unit)..Float(MaxCoord + 1) : Fl(v, 1) = v}

Corners == {Point(Float(a), Float(b)) : a, b \in 0..MaxCoord}

\* the axis-aligned square with lower left corner c and side d, from each corner onwards,
\* counter-clockwise and clockwise
Square(c, d) ==
    <<c, Point(c.x + d, c.y), Point(c.x + d, c.y + d), Point(c.x, c.y + d)>>

Rotated(polygon, k) ==
    [i \in 1..Len(polygon) |-> polygon[((i + k - 1) % Len(polygon)) + 1]]

Reversed(polygon) == [i \in 1..Len(polygon) |-> polygon[Len(polygon) + 1 - i]]

Squares ==
    LET base == {Square(c, Float(d)) : c \in Corners, d \in 1..MaxCoord}
        fits == {sq \in base : sq[3] \in Corners}
    IN  {Rotated(sq, k) : sq \in fits, k \in 0..1}
          \cup {Reversed(sq) : sq \in fits}

\* polygons of fewer than three vertices
Degenerate ==
    {<<>>} \cup {<<c>> : c \in Corners}
           \cup {<<Point(0, 0), c>> : c \in Corners} \cup {<<c, Point(0, 0)>> : c \in Corners}

Call(x, y, polygon) ==
    Message(1, <<"is_point_in_polygon">>, TRUE, [x |-> x, y |-> y, polygon |-> polygon])

InitPolygon ==
    /\ nextSeq = 2
    /\ now = 1
    /\ gate_events = <<>>
    /\ movement_logs = <<>>
    /\ audit_logs = <<>>
    /\ published = <<>>
    /\ result = NoResult
    /\ sweep = NoSweep
    /\ acks = {}
    /\ acked = <<>>
    /\ rtls_positions = <<>>
    /\ zones = <<>>
    /\ infants = RegisteredInfants
    /\ InitStream
    /\ creating = {}
    /\ alerts = <<>>
    /\ pairings = {}
    /\ gates = (G1 :> GateRow("CLOSED"))
    /\ \E x \in PointValues, y \in PointValues, polygon \in Squares \cup Degenerate :
          inbox = <<Call(x, y, polygon)>>

Return ==
    /\ inbox # <<>>
    /\ LET args == Head(inbox).payload
       IN  result' = Logged("is_point_in_polygon", Head(inbox),
                            is_point_in_polygon(args.x, args.y, args.polygon), NULL)
    /\ inbox' = Tail(inbox)
    /\ UNCHANGED <<nextSeq, now, gates, gate_events, movement_logs, alerts, audit_logs,
                   pairings, published, sweep, acks, acked, rtls_positions, zones, infants,
                   connections, sockets, broadcasts, events, creating>>

NextPolygon == Return

SpecPolygon == InitPolygon /\ [][NextPolygon]_vars

(***************************************************************************)
(* Position reports against a floor plan of two overlapping square zones.  *)
(***************************************************************************)
InitGeofence ==
    /\ inbox = <<>>
    /\ nextSeq = 1
    /\ now = 1
    /\ gate_events = <<>>
    /\ movement_logs = <<>>
    /\ audit_logs = <<>>
    /\ published = <<>>
    /\ result = NoResult
    /\ sweep = NoSweep
    /\ acks = {}
    /\ acked = <<>>
    /\ rtls_positions = <<>>
    /\ alerts = <<>>
    /\ pairings = {}
    /\ gates = (G1 :> GateRow("CLOSED"))
    /\ infants = RegisteredInfants
    /\ InitStream
    /\ creating = {}
    /\ \E type1 \in ZoneTypes, active1 \in BOOLEAN, floor1 \in Floors,
          type2 \in {"RESTRICTED", "EXIT"} :
            zones = <<ZoneRow("z1", "Nursery", floor1, type1,
                              Square(Point(0, 0), Float(2)), active1),
                      ZoneRow("z2", "Pharmacy", "1", type2,
                              Square(Point(Float(1), Float(1)), Float(1)), TRUE)>>

NextGeofence == CreatePosition

SpecGeofence == InitGeofence /\ [][NextGeofence]_vars

(***************************************************************************)
(* The live channels on their own: observers connect while events are      *)
(* published.                                                              *)
(***************************************************************************)
InitStreamOnly ==
    /\ InitCommon
    /\ now = 1
    /\ alerts = <<>>
    /\ pairings = {}
    /\ gates = (G1 :> GateRow("CLOSED"))

SpecStream == InitStreamOnly /\ [][NextStream]_vars

(***************************************************************************)
(* Pairing requests for the ward's infant, who has no pairing yet, a       *)
(* discharged one or an active one.                                        *)
(***************************************************************************)
InitPairing ==
    /\ InitCommon
    /\ now = 1
    /\ alerts = <<>>
    /\ gates = (G1 :> GateRow("CLOSED"))
    /\ pairings \in {{}, {Pairing("INF-01", "MOM-01", "DISCHARGED")},
                     {Pairing("INF-01", "MOM-01", "ACTIVE")}}

NextPairing == PairingCheck \/ PairingCommit

SpecPairing == InitPairing /\ [][NextPairing]_vars

(***************************************************************************)
(* The dispatch of _on_message when control commands also arrive for a     *)
(* gate whose name holds a routing word.                                   *)
(***************************************************************************)
ArriveControlEmbedded ==
    \E payload \in ControlPayloads : Arrive(ControlTopic(G4), TRUE, payload)

NextRouting ==
    \/ ArriveControl
    \/ ArriveControlEmbedded
    \/ ArriveMovement
    \/ ArriveMalformed
    \/ ArriveUnknown
    \/ HandleGateControl
    \/ HandleMovement
    \/ HandleAlert
    \/ DropMessage

SpecRouting == InitIngest /\ [][NextRouting]_vars

(***************************************************************************)
(* The alert store under the escalation sweep and operator acknowledgment. *)
(***************************************************************************)
\* an Alert as geofence_service creates it (extra_data names the zone) or as another
\* writer left it (extra_data NULL or {})
StoredAlert(severity, extra, created) ==
    [alert_type |-> "GEOFENCE_VIOLATION", severity |-> severity, tag_id |-> "INF-01",
     reader_id |-> NULL, message |-> "Unauthorized access", extra_data |-> extra,
     acknowledged |-> FALSE, acknowledged_by |-> NULL, acknowledged_at |-> NoTime,
     created_at |-> created]

\* class AlertSeverity
Severities == {"INFO", "WARNING", "CRITICAL"}

ExtraDataValues ==
    {NoExtraData, ExtraData(EmptyDict), ExtraData([zone_id |-> "z1"])}

InitEscalation ==
    /\ InitCommon
    /\ now = 6
    /\ pairings = {}
    /\ gates = (G1 :> GateRow("CLOSED")) @@ (G2 :> GateRow("CLOSED"))
    /\ \E sev \in Severities, extra \in ExtraDataValues, created \in {0, 1},
          extra2 \in {NoExtraData, ExtraData([zone_id |-> "z1"])} :
            alerts = <<StoredAlert(sev, extra, created), StoredAlert("CRITICAL", extra2, 0)>>

NextEscalation ==
    \/ Tick
    \/ SweepSelect
    \/ SweepCommit
    \/ AckSelect
    \/ AckCommit

SpecEscalation == InitEscalation /\ [][NextEscalation]_vars

\* start_alert_escalation_worker: `while True` with a sleep between sweeps, every
\* exception of a sweep caught.  Time passes, sweeps recur for ever, and a fault of the
\* store does not last for ever; operators are under no obligation to acknowledge.
SpecEscalationLive ==
    /\ InitEscalation
    /\ [][NextEscalation]_vars
    /\ WF_vars(Tick)
    /\ SF_vars(SweepSelectWith(NoFailure))
    /\ SF_vars(SweepCommitWith("none"))

(***************************************************************************)
(* Section 4.2 of the specification: the transition table.                 *)
(***************************************************************************)
TableState(command) ==
    CASE command = "UNLOCK" -> "OPEN"
      [] command = "ALARM" -> "FORCED_OPEN"
      [] command = "CLEAR" -> "CLOSED"

TableKind(command) ==
    CASE command = "UNLOCK" -> "gate_state"
      [] command = "ALARM" -> "forced"
      [] command = "CLEAR" -> "gate_state"

\* the step is one run of the handler `handler`
Ran(handler) == result' # result /\ result'.handler = handler

LastCommand == Get(result.msg.payload, "command")
LastGate == GateIdOf(result.msg.topic)

AppendsOneEvent(gate_id, command) ==
    /\ Len(gate_events') = Len(gate_events) + 1
    /\ SubSeq(gate_events', 1, Len(gate_events)) = gate_events
    /\ gate_events'[Len(gate_events')].gate_id = gate_id
    /\ gate_events'[Len(gate_events')].event_type = TableKind(command)
    /\ gate_events'[Len(gate_events')].state = TableState(command)

\* C3 as the specification states it: every UNLOCK, ALARM or CLEAR handed to the gate
\* state machine leaves the gate in OPEN, FORCED_OPEN or CLOSED and appends exactly one
\* GateEvent of kind gate_state, forced or gate_state, whatever the state before.
C3_TableForEveryCommand ==
    [][ (Ran("gate_control") /\ LastCommand' \in Commands)
        => /\ AppendsOneEvent(LastGate', LastCommand')
           /\ LastGate' \in DOMAIN gates
                => gates'[LastGate'].state = TableState(LastCommand') ]_vars

\* C3, amended: the table holds whenever the handler's transaction commits; when a write
\* or the commit fails the gate keeps its state and no GateEvent is appended.
C3_TableWhenCommitted ==
    [][ (Ran("gate_control") /\ LastCommand' \in Commands)
        => IF result'.outcome = "committed"
           THEN /\ AppendsOneEvent(LastGate', LastCommand')
                /\ LastGate' \in DOMAIN gates
                     => gates'[LastGate'].state = TableState(LastCommand')
           ELSE gate_events' = gate_events /\ gates' = gates ]_vars

C3_Witness ==
    /\ result.handler = "gate_control"
    /\ result.outcome = "committed"
    /\ LastCommand = "ALARM"
    /\ LastGate = G1
    /\ gates[G1].state = "FORCED_OPEN"
    /\ Len(gate_events) >= 2
    /\ gate_events[Len(gate_events)].event_type = "forced"

C5_UnknownCommandIgnored ==
    [][ (Ran("gate_control") /\ LastCommand' \notin Commands)
        => gates' = gates /\ gate_events' = gate_events ]_vars

PendingControl(gate_id) ==
    \E i \in DOMAIN inbox :
        Route(inbox[i]) = "gate_control" /\ GateIdOf(inbox[i].topic) = gate_id

EventsOf(gate_id) == {i \in DOMAIN gate_events : gate_events[i].gate_id = gate_id}

LastEventOf(gate_id) ==
    gate_events[CHOOSE i \in EventsOf(gate_id) : \A j \in EventsOf(gate_id) : j <= i]

ProcessedInArrivalOrder ==
    /\ \A i \in DOMAIN inbox : inbox[i].seq > result.seq
    /\ \A i, j \in DOMAIN inbox : i < j => inbox[i].seq < inbox[j].seq

EventsInArrivalOrder ==
    \A i, j \in DOMAIN gate_events :
        (i < j /\ gate_events[i].gate_id = gate_events[j].gate_id)
            => gate_events[i].id < gate_events[j].id

\* C8 as the specification states it: commands are handled oldest first, a gate's events
\* are logged in arrival order, and once the last command to arrive for a gate has been
\* handled the gate is in the state that command sets.
C8_LastCommandWins ==
    /\ ProcessedInArrivalOrder
    /\ EventsInArrivalOrder
    /\ (/\ result.handler = "gate_control"
        /\ LastCommand \in Commands
        /\ LastGate \in DOMAIN gates
        /\ ~PendingControl(LastGate))
            => gates[LastGate].state = TableState(LastCommand)

\* C8, amended: commands are handled oldest first, a gate's events are logged in arrival
\* order, and the gate is in the state set by the last command whose transaction
\* committed (the state its event, the last one logged for the gate, records).
C8_LastCommittedCommandWins ==
    /\ ProcessedInArrivalOrder
    /\ EventsInArrivalOrder
    /\ (/\ result.handler = "gate_control"
        /\ result.outcome = "committed"
        /\ LastCommand \in Commands
        /\ LastGate \in DOMAIN gates)
            => gates[LastGate].state = TableState(LastCommand)
    /\ \A g \in DOMAIN gates :
          (EventsOf(g) # {} /\ LastEventOf(g).state # NULL)
              => gates[g].state = LastEventOf(g).state

C8_Witness ==
    /\ Len(gate_events) = 2
    /\ \A i \in 1..2 : gate_events[i].gate_id = G1 /\ gate_events[i].id = i
    /\ gate_events[1].state = "OPEN"
    /\ gate_events[2].state = "CLOSED"
    /\ result.handler = "gate_control"
    /\ result.seq = 3
    /\ LastGate = G1
    /\ LastCommand = "UNLOCK"
    /\ result.outcome = "rolled_back"
    /\ gates[G1].state = "CLOSED"

\* C9 as the specification states it: the GateEvent a command appends carries the gate's
\* state before the command as previous_state and its state after it as state.
C9_EventCarriesBothStates ==
    [][ (Ran("gate_control") /\ Len(gate_events') > Len(gate_events)
            /\ LastGate' \in DOMAIN gates)
        => /\ gate_events'[Len(gate_events')].previous_state = gates[LastGate'].state
           /\ gate_events'[Len(gate_events')].state = gates'[LastGate'].state ]_vars

(***************************************************************************)
(* Section 4.3 of the specification: exit authorization.                   *)
(***************************************************************************)
LastTag == Get(result.msg.payload, "tag_id")

HasActivePairing(tag_id) ==
    \E p \in pairings : p.infant_tag = tag_id /\ p.status = "ACTIVE"

PublishesOneUnauthorizedApproach ==
    /\ Len(published') = Len(published) + 1
    /\ SubSeq(published', 1, Len(published)) = published
    /\ published'[Len(published')].type = "unauthorized_gate_approach"
    /\ published'[Len(published')].severity = "critical"
    /\ published'[Len(published')].tag_id = LastTag'
    /\ published'[Len(published')].reader_id = Get(result'.msg.payload, "reader_id")

ApproachWithoutPairing ==
    /\ Ran("movement")
    /\ Get(result'.msg.payload, "event") = "gate_approach"
    /\ ~HasActivePairing(LastTag')

PublishesCriticalAlert ==
    /\ Len(published') > Len(published)
    /\ published'[Len(published')].severity = "critical"

\* C2 as the specification states it: when the infant has an ACTIVE pairing and the
\* guardian named in it does not accompany the infant (a gate_approach event carries no
\* guardian; a verify-exit request names another guardian), the exit is denied and a
\* critical alert is published.
C2_GuardianMismatchAlerts ==
    [][ /\ (/\ Ran("movement")
            /\ Get(result'.msg.payload, "event") = "gate_approach"
            /\ result'.outcome = "committed"
            /\ result'.check # "error"
            /\ HasActivePairing(LastTag'))
              => PublishesCriticalAlert
        /\ (/\ Ran("verify_exit")
            /\ \E p \in pairings :
                  /\ p.status = "ACTIVE"
                  /\ p.infant_tag = result'.msg.payload.infant_tag_id
                  /\ p.mother_tag # result'.msg.payload.mother_tag_id)
              => result'.outcome = "not_authorized" /\ PublishesCriticalAlert ]_vars

(***************************************************************************)
(* Section 3 of the specification: who writes a gate's state.              *)
(***************************************************************************)
StateTouched(gate_id) ==
    \/ gates'[gate_id].state # gates[gate_id].state
    \/ gates'[gate_id].last_state_change # gates[gate_id].last_state_change

RequestGate == result.msg.topic[3]

\* C10 as the specification states it: a gate's state and last_state_change change only
\* in a run of the gate control handler for that gate; update_gate changes neither.
C10_OnlyStateMachineWritesState ==
    [][ \A g \in DOMAIN gates :
            StateTouched(g) => Ran("gate_control") /\ LastGate' = g ]_vars

(***************************************************************************)
(* Section 4.5 of the specification: escalation and acknowledgment.        *)
(***************************************************************************)
EscalationAudits(alert_id) ==
    {k \in DOMAIN audit_logs : /\ audit_logs[k].action = "ALERT_ESCALATED"
                               /\ audit_logs[k].resource_id = alert_id}

StoredEscalated(alert_id) ==
    /\ ~alerts[alert_id].extra_data.null
    /\ Get(alerts[alert_id].extra_data.dict, "escalated") = "True"

\* C6 as the specification states it: whatever extra_data an alert held, the sweeps over
\* it write at most one ALERT_ESCALATED audit record for it, and an alert that has its
\* audit record has extra_data.escalated = true in the store.
C6_EscalatedAtMostOnce ==
    \A i \in AlertIds :
        /\ Cardinality(EscalationAudits(i)) <= 1
        /\ EscalationAudits(i) # {} => StoredEscalated(i)

Acknowledgments(alert_id) ==
    {k \in DOMAIN acked : acked[k].id = alert_id /\ acked[k].status = 200}

\* C7 as the specification states it: once an acknowledgment of an alert has committed
\* and a sweep that marked the alert has committed, in either order and however their
\* steps interleave, the alert is stored acknowledged with the time of a committed
\* acknowledgment and with extra_data.escalated = true.
C7_AckAndSweepKeepEachOthersFields ==
    \A i \in AlertIds :
        (Acknowledgments(i) # {} /\ i \in sweep.marked)
            => /\ alerts[i].acknowledged
               /\ \E k \in Acknowledgments(i) : alerts[i].acknowledged_at = acked[k].at
               /\ StoredEscalated(i)

(***************************************************************************)
(* Section 4.5 of the specification: acknowledge(id, by).                  *)
(***************************************************************************)
\* the step ends a request with the status `status`
Answers(status) ==
    /\ Len(acked') = Len(acked) + 1
    /\ acked'[Len(acked')].status = status

NewAnswer == acked'[Len(acked')]

\* C11 as the specification states it: an acknowledgment of an existing alert that goes
\* through leaves the alert with acknowledged = true, acknowledged_by = the operator of
\* the request and acknowledged_at = the time of the request, and with the type,
\* severity, message and extra_data it had.
C11_AcknowledgeSetsFlagOperatorAndTime ==
    [][ Answers(200)
        => /\ alerts'[NewAnswer.id].acknowledged
           /\ alerts'[NewAnswer.id].acknowledged_by = NewAnswer.by
           /\ alerts'[NewAnswer.id].acknowledged_at = NewAnswer.at
           /\ alerts'[NewAnswer.id].alert_type = alerts[NewAnswer.id].alert_type
           /\ alerts'[NewAnswer.id].severity = alerts[NewAnswer.id].severity
           /\ alerts'[NewAnswer.id].message = alerts[NewAnswer.id].message
           /\ alerts'[NewAnswer.id].extra_data = alerts[NewAnswer.id].extra_data ]_vars

Eligible(i) ==
    /\ alerts[i].severity \notin {"INFO", "WARNING"}
    /\ alerts[i].acknowledged = FALSE
    /\ now - alerts[i].created_at > 5

NewAudits == {audit_logs'[k].resource_id : k \in (Len(audit_logs) + 1)..Len(audit_logs')}

\* C13: a sweep selects only alerts that are CRITICAL, unacknowledged and older than five
\* minutes at the time of its query, and what it commits - the extra_data it rewrites and
\* the ALERT_ESCALATED audit records it adds - concerns only the alerts it selected.
C13_OnlyOverdueCriticalEscalated ==
    [][ /\ (sweep.pc = "idle" /\ sweep'.pc = "loaded")
              => /\ \A i \in sweep'.todo : Eligible(i)
                 /\ DOMAIN sweep'.writes \subseteq sweep'.todo
                 /\ \A k \in DOMAIN sweep'.audits :
                       sweep'.audits[k].resource_id \in sweep'.todo
        /\ (sweep.pc = "loaded" /\ sweep'.pc = "idle")
              => /\ NewAudits \subseteq sweep.todo
                 /\ \A i \in AlertIds :
                       alerts'[i].extra_data # alerts[i].extra_data => i \in sweep.todo
        /\ ~(sweep.pc = "loaded" /\ sweep'.pc = "idle")
              => /\ audit_logs' = audit_logs
                 /\ \A i \in AlertIds : alerts'[i].extra_data = alerts[i].extra_data
        /\ sweep.pc = "loaded" => sweep'.pc = "idle" \/ sweep'.todo = sweep.todo ]_vars

\* a WARNING alert as old as the escalated CRITICAL one was passed over by two sweeps
C13_Witness ==
    /\ alerts[1].severity = "WARNING"
    /\ alerts[1].created_at = 0
    /\ alerts[1].extra_data = ExtraData(EmptyDict)
    /\ EscalationAudits(1) = {}
    /\ alerts[2].severity = "CRITICAL"
    /\ StoredEscalated(2)
    /\ Cardinality(EscalationAudits(2)) = 1
    /\ sweep.marked = {2}
    /\ sweep.pc = "idle"
    /\ now = 7

\* C14 as the specification states it: when a sweep fails while it escalates one alert,
\* every other alert the sweep selected still gets its audit record and, where the
\* sweep rewrites extra_data, its escalated flag.
C14_FailureOnOneAlertSparesTheOthers ==
    [][ (sweep'.failed # 0 /\ sweep' # sweep)
        => \A j \in Selected(now) \ {sweep'.failed} :
              /\ j \in NewAudits
              /\ Tracked(alerts[j].extra_data) => StoredEscalated(j)' ]_vars

Stores == <<gates, gate_events, movement_logs, alerts, audit_logs, pairings>>

\* the payload is no JSON, or the topic is of none of the three families
BadMessage(msg) ==
    \/ ~msg.valid
    \/ msg.topic \notin ({ControlTopic(g) : g \in GateIds}
                            \cup {MovementTopic("gate1"), AlertsTopic})

\* C16: a message that is no JSON or whose topic is of no family is dropped and never
\* handed to a handler; dropping it writes to no store, publishes no alert and takes
\* exactly that message off the queue, leaving the later ones in place and in order;
\* and whenever a message is waiting, the gateway can take it.
C16_BadMessageDropped ==
    /\ [](inbox # <<>> => ENABLED NextIngest)
    /\ [][ result' # result
           => /\ BadMessage(result'.msg) <=> result'.handler = "dropped"
              /\ result'.handler = "dropped"
                    => /\ Stores' = Stores
                       /\ published' = published
                       /\ nextSeq' = nextSeq
                       /\ result'.msg = Head(inbox)
                       /\ inbox' = Tail(inbox) ]_vars

\* a malformed message was dropped between a handled command and a waiting one
C16_Witness ==
    /\ result.handler = "dropped"
    /\ result.outcome = "invalid_json"
    /\ result.seq = 2
    /\ Len(gate_events) = 1
    /\ gate_events[1].id = 1
    /\ gates[G1].state = "OPEN"
    /\ Len(inbox) = 1
    /\ inbox[1].seq = 3
    /\ Route(inbox[1]) = "gate_control"

\* C17: a movement or alert message whose write fails leaves every store and the alerts
\* topic as they were and is taken off the queue like any other; no message is handled
\* twice (handled messages have growing arrival numbers, waiting ones are all newer, and
\* no two movement rows come from one message), and the next message is the oldest
\* waiting one.
C17_FailedWriteSkipsOnlyThatMessage ==
    /\ [](/\ \A i \in DOMAIN inbox : inbox[i].seq > result.seq
          /\ \A i, j \in DOMAIN movement_logs :
                i < j => movement_logs[i].id < movement_logs[j].id)
    /\ [][ result' # result
           => /\ result'.seq > result.seq
              /\ result'.handler \in {"movement", "alert"}
                    => /\ result'.msg = Head(inbox)
                       /\ SubSeq(inbox', 1, Len(inbox) - 1) = Tail(inbox)
                       /\ result'.outcome = "rolled_back"
                             => /\ Stores' = Stores
                                /\ published' = published
                                /\ inbox' = Tail(inbox) ]_vars

\* a movement write failed after an earlier one was stored, and a message is waiting
C17_Witness ==
    /\ result.handler = "movement"
    /\ result.outcome = "rolled_back"
    /\ result.seq = 2
    /\ Len(movement_logs) = 1
    /\ movement_logs[1].id = 1
    /\ Len(inbox) = 1
    /\ inbox[1].seq = 3
    /\ Route(inbox[1]) = "movement"

(***************************************************************************)
(* Section 4.4 of the specification: the geofence evaluator.               *)
(***************************************************************************)
Xs(polygon) == {polygon[i].x : i \in DOMAIN polygon}
Ys(polygon) == {polygon[i].y : i \in DOMAIN polygon}

StrictlyInside(x, y, polygon) ==
    /\ \E a \in Xs(polygon) : a < x
    /\ \E a \in Xs(polygon) : x < a
    /\ \E b \in Ys(polygon) : b < y
    /\ \E b \in Ys(polygon) : y < b

StrictlyOutside(x, y, polygon) ==
    \/ \A a \in Xs(polygon) : x < a
    \/ \A a \in Xs(polygon) : a < x
    \/ \A b \in Ys(polygon) : y < b
    \/ \A b \in Ys(polygon) : b < y

Returned == result.handler = "is_point_in_polygon"

Args == result.msg.payload

\* C20 as the specification states it: is_point_in_polygon returns true for a point
\* strictly inside an axis-aligned square, false for a point strictly outside it, and
\* false for every point when the polygon has fewer than three vertices.
C20_SquaresAndDegeneratePolygons ==
    Returned
        => /\ (Len(Args.polygon) = 4 /\ StrictlyInside(Args.x, Args.y, Args.polygon))
                => result.outcome = TRUE
           /\ (Len(Args.polygon) = 4 /\ StrictlyOutside(Args.x, Args.y, Args.polygon))
                => result.outcome = FALSE
           /\ Len(Args.polygon) < 3 => result.outcome = FALSE

\* the position report of the last create_position and what check_geofence returned for it
Report == result.msg.payload

Evaluated == result.handler = "create_position" /\ result.outcome.returned

\* the zone is a square and the reported point lies strictly inside it
ZoneContains(zone, data) == StrictlyInside(data.x, data.y, zone.polygon)

\* how many of the given alerts are violations of that type referring to the zone
Violations(found, alert_type, zone) ==
    Cardinality({k \in DOMAIN found :
                    /\ found[k].alert_type = alert_type
                    /\ \/ alert_type = "GEOFENCE_VIOLATION"
                          /\ found[k].extra_data.dict.zone_id = zone.id
                       \/ alert_type = "EXIT_DETECTED"
                          /\ found[k].extra_data.dict.zone = zone.name})

C19_ExitWarnsForEveryInfant ==
    Evaluated
        => \A i \in DOMAIN zones :
              (/\ zones[i].zone_type = "EXIT"
               /\ zones[i].is_active
               /\ zones[i].floor = Report.floor
               /\ ZoneContains(zones[i], Report))
                  => /\ Violations(result.outcome.alerts, "EXIT_DETECTED", zones[i])
                            = IF Report.asset_type = "infant" THEN 1 ELSE 0
                     /\ \A k \in DOMAIN result.outcome.alerts :
                            result.outcome.alerts[k].alert_type = "EXIT_DETECTED"
                                => result.outcome.alerts[k].severity = "WARNING"

(***************************************************************************)
(* Section 4.5 of the specification: the live channels.                    *)
(***************************************************************************)
\* the broadcast of the event has returned
Completed(e) == \A b \in broadcasts : b.id # e.id

\* the observer was sent the update of the event
Got(o, e) ==
    \E k \in DOMAIN sockets[o].received : sockets[o].received[k] = Update(e.channel, e.id)

PublishedEvents == {events[i] : i \in DOMAIN events}

\* C21 as the specification states it: no broadcast waits for the send to a slow
\* observer to complete while other observers of its list have yet to be sent the event.
C21_SlowObserverDelaysNobody ==
    \A b \in broadcasts : sockets[b.awaiting].link = "slow" => b.todo = {}

\* C22: an observer whose send failed is out of its channel's registry; when the
\* broadcast has returned every other observer of its list has been sent the event
\* (or was dropped in its turn); an event published after an observer was dropped is
\* neither addressed nor sent to it.
C22_FailedObserverDroppedOthersServed ==
    /\ \A o \in Observers :
          sockets[o].dropped # NoTime => o \notin connections[sockets[o].channel]
    /\ \A e \in PublishedEvents :
          Completed(e)
              => \A o \in e.targets :
                    \/ Got(o, e)
                    \/ sockets[o].dropped # NoTime /\ o \notin connections[e.channel]
    /\ \A o \in Observers, e \in PublishedEvents :
          (sockets[o].dropped # NoTime /\ e.id > sockets[o].dropped)
              => ~Got(o, e) /\ o \notin e.targets

\* two observers of one channel, two events: the send of the first event to one
\* observer failed, the other observer was sent both events
C22_Witness ==
    /\ Len(events) = 2
    /\ broadcasts = {}
    /\ events[1].channel = events[2].channel
    /\ \E o \in Observers, other \in Observers :
          /\ o # other
          /\ events[1].targets = {o, other}
          /\ sockets[o].dropped = 1
          /\ ~Got(o, events[1])
          /\ Got(other, events[1])
          /\ Got(other, events[2])

\* C23 as the specification states it: the first message an observer is sent after it
\* connected is the snapshot of kind "initial".
C23_SnapshotComesFirst ==
    \A o \in Observers :
        sockets[o].received # <<>> => sockets[o].received[1].type = "initial"

\* C24 as the specification states it: at most one ACTIVE pairing per infant.
C24_AtMostOneActivePairing ==
    \A infant \in PairingInfants :
        Cardinality({p \in pairings : p.infant_tag = infant /\ p.status = "ACTIVE"}) <= 1

(***************************************************************************)
(* Transactions and the order of side effects.                             *)
(***************************************************************************)
\* C25: a run of the gate control handler on a registered gate either appends the gate
\* event and sets the gate's state and last_state_change, both, or, when a write or the
\* commit fails, leaves the event log and the gates table as they were.
C25_EventAndStateCommitTogether ==
    [][ (Ran("gate_control") /\ LastGate' \in DOMAIN gates)
        => IF result'.outcome = "committed"
           THEN /\ Len(gate_events') = Len(gate_events) + 1
                /\ SubSeq(gate_events', 1, Len(gate_events)) = gate_events
                /\ gate_events'[Len(gate_events')].gate_id = LastGate'
                /\ gates'[LastGate'].last_state_change = now
                /\ gates'[LastGate'].state =
                      IF gate_events'[Len(gate_events')].state # NULL
                      THEN gate_events'[Len(gate_events')].state ELSE "UNKNOWN"
           ELSE gate_events' = gate_events /\ gates' = gates ]_vars

\* a command on a registered gate was rolled back after an earlier one had committed: the
\* log holds the earlier event only and the gate is as that command left it
C25_Witness ==
    /\ result.handler = "gate_control"
    /\ result.outcome = "rolled_back"
    /\ LastGate = G1
    /\ LastCommand = "UNLOCK"
    /\ Len(gate_events) = 1
    /\ gate_events[1].state = "FORCED_OPEN"
    /\ gates[G1].state = "FORCED_OPEN"
    /\ gates[G1].last_state_change = gate_events[1].timestamp

\* C26 as the specification states it: in every state between sweeps an alert has an
\* ALERT_ESCALATED audit record exactly when its stored extra_data.escalated is true.
C26_AuditRecordIffStoredFlag ==
    \A i \in AlertIds : EscalationAudits(i) # {} <=> StoredEscalated(i)

\* C27: the pairing check of a movement event runs only for a gate_approach whose
\* movement record this run has committed; when the movement write fails or the pairing
\* lookup raises, nothing is published; in every case the handler returns: the message
\* is consumed and the messages behind it stay in line.
C27_CheckAfterCommitAndFailuresSilent ==
    [][ Ran("movement")
        => /\ result'.check # "not_run"
                => /\ result'.outcome = "committed"
                   /\ Get(result'.msg.payload, "event") = "gate_approach"
                   /\ Len(movement_logs') = Len(movement_logs) + 1
                   /\ movement_logs'[Len(movement_logs')].id = result'.seq
           /\ (result'.outcome = "rolled_back" \/ result'.check = "error")
                => /\ published' = published
                   /\ inbox' = Remaining(inbox)
           /\ result'.outcome = "rolled_back"
                => result'.check = "not_run" /\ movement_logs' = movement_logs
           /\ Len(inbox') >= Len(inbox) - 1 ]_vars

\* a gate_approach of the unpaired INF-02 whose record was committed and whose pairing
\* lookup raised: nothing published
C27_Witness ==
    /\ result.handler = "movement"
    /\ result.outcome = "committed"
    /\ result.check = "error"
    /\ LastTag = "INF-02"
    /\ ~HasActivePairing("INF-02")
    /\ Len(movement_logs) = 1
    /\ movement_logs[1].event_type = "gate_approach"
    /\ published = <<>>

\* C28: when the transaction of an ALARM command is rolled back, the security_alarm
\* alert of that run has been published all the same (and comes back to the gateway on
\* the alerts topic), while the gates table and the gate event log are unchanged.
C28_AlarmAlertSurvivesRollback ==
    [][ (Ran("gate_control") /\ LastCommand' = "ALARM" /\ result'.outcome = "rolled_back")
        => /\ published' = Append(published, SecurityAlarm(LastGate'))
           /\ Len(inbox') = Len(inbox)
           /\ inbox'[Len(inbox')].topic = AlertsTopic
           /\ inbox'[Len(inbox')].payload = SecurityAlarm(LastGate')
           /\ gates' = gates
           /\ gate_events' = gate_events ]_vars

\* an ALARM on the registered gate was rolled back: one alert published, the gate as it
\* was created, no gate event
C28_Witness ==
    /\ result.handler = "gate_control"
    /\ result.outcome = "rolled_back"
    /\ LastCommand = "ALARM"
    /\ LastGate = G1
    /\ published = <<SecurityAlarm(G1)>>
    /\ gates[G1].last_state_change = 0
    /\ gates[G1].state # "FORCED_OPEN"
    /\ gate_events = <<>>

Stored(rows, row) == \E k \in DOMAIN rows : rows[k] = row

\* C29: a position report stores its position and every alert of its evaluation, or
\* none of them; the position update and the
\* alert updates are handed to the live channels only by a report that has committed, so
\* whatever is broadcast is a stored position or a stored alert.
C29_BroadcastOnlyWhatIsCommitted ==
    [][ (result' # result /\ result'.handler = "create_position")
        => /\ \/ /\ Len(rtls_positions') = Len(rtls_positions) + 1
                 /\ SubSeq(rtls_positions', 1, Len(rtls_positions)) = rtls_positions
                 /\ alerts' = alerts \o result'.outcome.alerts
                 /\ result'.outcome.broadcast \in
                        {<<>>, <<rtls_positions'[Len(rtls_positions')]>>
                                  \o result'.outcome.alerts}
              \/ /\ rtls_positions' = rtls_positions
                 /\ alerts' = alerts
                 /\ result'.outcome.broadcast = <<>>
           /\ result'.outcome.status = 201
                 => /\ Len(rtls_positions') = Len(rtls_positions) + 1
                    /\ Len(result'.outcome.broadcast) = 1 + Len(result'.outcome.alerts)
           /\ \A k \in DOMAIN result'.outcome.broadcast :
                 \/ Stored(rtls_positions', result'.outcome.broadcast[k])
                 \/ Stored(alerts', result'.outcome.broadcast[k]) ]_vars

\* a report inside a restricted zone whose commit failed: the evaluation returned a
\* violation, nothing is stored and nothing was broadcast
C29_Witness ==
    /\ result.handler = "create_position"
    /\ result.outcome.status = 500
    /\ result.outcome.returned
    /\ Len(result.outcome.alerts) = 1
    /\ result.outcome.broadcast = <<>>
    /\ rtls_positions = <<>>
    /\ alerts = <<>>

(***************************************************************************)
(* Section 4.1 of the specification: dispatch by topic.                    *)
(***************************************************************************)
\* hospital/gates/<gate_id>/control
IsControlTopic(topic) ==
    /\ Len(topic) = 4
    /\ topic[1] = "hospital"
    /\ topic[2] = "gates"
    /\ topic[4] = "control"

\* C30 as the specification states it: a message is handed to one handler at most (it
\* is not in line again after its run), and a well-formed message on a topic
\* hospital/gates/<gate_id>/control is handed to the gate control handler, whatever the
\* gate_id.
C30_ControlTopicsReachGateControl ==
    [][ result' # result
        => /\ \A i \in DOMAIN inbox' : inbox'[i].seq # result'.seq
           /\ (result'.msg.valid /\ IsControlTopic(result'.msg.topic))
                => /\ result'.handler = "gate_control"
                   /\ alerts' = alerts
                   /\ movement_logs' = movement_logs ]_vars

====
